---- MODULE Spec2Model ----
(***************************************************************************)
(* A model of baby_crawler: the deduplicating, id-assigning CrawlerQueue,  *)
(* the URL validation / normalisation pipeline of Crawler, and the pool of *)
(* asyncio workers started by Crawler._run_crawler.                        *)
(*                                                                         *)
(* Strings are sequences of one-character strings, so that slicing,        *)
(* splitting and stripping are computed as Python computes them.           *)
(***************************************************************************)
EXTENDS Integers, Sequences, FiniteSets, Bags, TLC

(***************************************************************************)
(* Python str helpers                                                      *)
(***************************************************************************)

\* s[:n]
Prefix(s, n) == SubSeq(s, 1, IF n < Len(s) THEN n ELSE Len(s))

\* s[n:] (n is the 0-based start)
Suffix(s, n) == SubSeq(s, n + 1, Len(s))

\* s.find(c) + 1: the 1-based position of the first c in s, 0 when absent
Find(s, c) ==
    IF \E i \in 1..Len(s) : s[i] = c
    THEN CHOOSE i \in 1..Len(s) : s[i] = c /\ \A j \in 1..(i - 1) : s[j] # c
    ELSE 0

\* the 1-based position of the last c in s, 0 when absent
RFind(s, c) ==
    IF \E i \in 1..Len(s) : s[i] = c
    THEN CHOOSE i \in 1..Len(s) : s[i] = c /\ \A j \in (i + 1)..Len(s) : s[j] # c
    ELSE 0

\* s.split(c): the list of the pieces between the occurrences of c
RECURSIVE StrSplit(_, _)
StrSplit(s, c) ==
    LET i == Find(s, c)
    IN  IF i = 0 THEN <<s>>
        ELSE <<SubSeq(s, 1, i - 1)>> \o StrSplit(Suffix(s, i), c)

\* c.join(parts)
RECURSIVE StrJoin(_, _)
StrJoin(parts, c) ==
    IF Len(parts) = 0 THEN <<>>
    ELSE IF Len(parts) = 1 THEN parts[1]
    ELSE parts[1] \o <<c>> \o StrJoin(Tail(parts), c)

\* s.strip(c): every leading and every trailing c removed
RECURSIVE LStrip(_, _)
LStrip(s, c) == IF Len(s) > 0 /\ s[1] = c THEN LStrip(Tail(s), c) ELSE s

RECURSIVE RStrip(_, _)
RStrip(s, c) ==
    IF Len(s) > 0 /\ s[Len(s)] = c THEN RStrip(SubSeq(s, 1, Len(s) - 1), c) ELSE s

Strip(s, c) == RStrip(LStrip(s, c), c)

\* one more copy of e in the bag b
BagAdd(b, e) == b (+) SetToBag({e})

Letters ==
    {"a", "b", "c", "d", "e", "f", "g", "h", "i", "j", "k", "l", "m",
     "n", "o", "p", "q", "r", "s", "t", "u", "v", "w", "x", "y", "z",
     "A", "B", "C", "D", "E", "F", "G", "H", "I", "J", "K", "L", "M",
     "N", "O", "P", "Q", "R", "S", "T", "U", "V", "W", "X", "Y", "Z"}

Digits == {"0", "1", "2", "3", "4", "5", "6", "7", "8", "9"}

\* urllib.parse.scheme_chars
SchemeChars == Letters \cup Digits \cup {"+", "-", "."}

\* str.lower() on the letters the model uses in schemes
LowerChar(c) ==
    CASE c = "H" -> "h" [] c = "T" -> "t" [] c = "P" -> "p" [] c = "S" -> "s"
      [] c = "F" -> "f" [] c = "M" -> "m" [] OTHER -> c

Lower(s) == [i \in 1..Len(s) |-> LowerChar(s[i])]

(***************************************************************************)
(* urllib.parse, as far as the crawler uses it.  Each function is a chain  *)
(* of steps, one per assignment of the Python code; a step hands the       *)
(* values computed so far to the next one.                                 *)
(***************************************************************************)

\* urlsplit, last step: url.split('?', 1), then the SplitResult
SplitQuery(scheme, netloc, url, fragment, q) ==
    [scheme |-> scheme, netloc |-> netloc,
     path |-> IF q > 0 THEN SubSeq(url, 1, q - 1) ELSE url,
     query |-> IF q > 0 THEN Suffix(url, q) ELSE <<>>,
     fragment |-> fragment]

\* urlsplit: url.split('#', 1)
SplitFragment(scheme, netloc, url, h) ==
    SplitQuery(scheme, netloc,
               IF h > 0 THEN SubSeq(url, 1, h - 1) ELSE url,
               IF h > 0 THEN Suffix(url, h) ELSE <<>>,
               Find(IF h > 0 THEN SubSeq(url, 1, h - 1) ELSE url, "?"))

\* _splitnetloc(url, 2): the netloc ends before the first of "/", "?", "#";
\* s is url[2:], the result is the 1-based position of that end in s
NetlocEnd(s) ==
    IF \E j \in 1..Len(s) : s[j] \in {"/", "?", "#"}
    THEN CHOOSE j \in 1..Len(s) :
            /\ s[j] \in {"/", "?", "#"}
            /\ \A k \in 1..(j - 1) : s[k] \notin {"/", "?", "#"}
    ELSE Len(s) + 1

\* urlsplit: if url[:2] == '//': netloc, url = _splitnetloc(url, 2)
SplitNetloc(scheme, url, cut) ==
    IF Prefix(url, 2) = <<"/", "/">>
    THEN SplitFragment(scheme, SubSeq(url, 3, cut + 1), Suffix(url, cut + 1),
                       Find(Suffix(url, cut + 1), "#"))
    ELSE SplitFragment(scheme, <<>>, url, Find(url, "#"))

\* urlsplit: the scheme is url[:i] when i > 0, url[0] is a letter and url[:i]
\* has scheme characters only
HasScheme(url, i) ==
    /\ i > 1
    /\ url[1] \in Letters
    /\ \A j \in 1..(i - 1) : url[j] \in SchemeChars

SplitScheme(url, i) ==
    IF HasScheme(url, i)
    THEN SplitNetloc(Lower(SubSeq(url, 1, i - 1)), Suffix(url, i),
                     NetlocEnd(Suffix(url, i + 2)))
    ELSE SplitNetloc(<<>>, url, NetlocEnd(Suffix(url, 2)))

\* urlsplit(url): [scheme, netloc, path, query, fragment]
urlsplit(url) == SplitScheme(url, Find(url, ":"))

\* urllib.parse.uses_netloc and uses_relative, the schemes the model's links
\* carry ('' included)
UsesNetloc == {<<>>, <<"h", "t", "t", "p">>, <<"h", "t", "t", "p", "s">>, <<"f", "t", "p">>}
UsesRelative == {<<>>, <<"h", "t", "t", "p">>, <<"h", "t", "t", "p", "s">>, <<"f", "t", "p">>}

\* urlunsplit: url = '//' + (netloc or '') + url, with a "/" before a
\* relative path
UnsplitNetloc(p) ==
    IF p.netloc # <<>>
       \/ (p.scheme # <<>> /\ p.scheme \in UsesNetloc /\ Prefix(p.path, 2) # <<"/", "/">>)
    THEN <<"/", "/">> \o p.netloc
         \o (IF p.path # <<>> /\ p.path[1] # "/" THEN <<"/">> ELSE <<>>)
         \o p.path
    ELSE p.path

\* urlunsplit(parts)
urlunsplit(p) ==
    (IF p.scheme # <<>> THEN p.scheme \o <<":">> ELSE <<>>)
    \o UnsplitNetloc(p)
    \o (IF p.query # <<>> THEN <<"?">> \o p.query ELSE <<>>)
    \o (IF p.fragment # <<>> THEN <<"#">> \o p.fragment ELSE <<>>)

\* urldefrag(url).url
urldefrag(url) ==
    IF Find(url, "#") > 0
    THEN urlunsplit([urlsplit(url) EXCEPT !.fragment = <<>>])
    ELSE url

\* urljoin: the loop over the segments, dropping "." and resolving ".."
RECURSIVE ResolveDots(_, _)
ResolveDots(segments, resolved) ==
    IF Len(segments) = 0 THEN resolved
    ELSE IF Head(segments) = <<".", ".">>
    THEN ResolveDots(Tail(segments),
                     SubSeq(resolved, 1, IF Len(resolved) > 0 THEN Len(resolved) - 1 ELSE 0))
    ELSE IF Head(segments) = <<".">>
    THEN ResolveDots(Tail(segments), resolved)
    ELSE ResolveDots(Tail(segments), Append(resolved, Head(segments)))

\* urljoin: if segments[-1] in ('.', '..'): resolved_path.append('')
CloseDots(segments, resolved) ==
    IF segments[Len(segments)] \in {<<".">>, <<".", ".">>}
    THEN Append(resolved, <<>>) ELSE resolved

\* urljoin: '/'.join(resolved_path) or '/'
JoinedPath(joined) == IF joined = <<>> THEN <<"/">> ELSE joined

\* urljoin: the path of url resolved (it starts with "/", so the base path
\* is ignored)
JoinPath(scheme, b, u, segments) ==
    urlunsplit([scheme |-> scheme, netloc |-> b.netloc,
                path |-> JoinedPath(StrJoin(CloseDots(segments,
                                                      ResolveDots(segments, <<>>)), "/")),
                query |-> u.query, fragment |-> u.fragment])

\* urljoin after both URLs are parsed; scheme is url's, or the base's
JoinParts(url, b, u, scheme) ==
    IF scheme # b.scheme \/ scheme \notin UsesRelative THEN url
    ELSE IF u.netloc # <<>> THEN urlunsplit([u EXCEPT !.scheme = scheme])
    ELSE IF u.path = <<>>
    THEN urlunsplit([b EXCEPT !.query = IF u.query # <<>> THEN u.query ELSE b.query,
                              !.fragment = u.fragment])
    ELSE JoinPath(scheme, b, u, StrSplit(u.path, "/"))

JoinParsed(url, b, u) ==
    JoinParts(url, b, u, IF u.scheme = <<>> THEN b.scheme ELSE u.scheme)

\* urljoin(base, url) for the one shape of url the crawler joins, url[0] == "/":
\* the path of such a url is absolute ("/...") or, after "//netloc", empty
urljoin(base, url) ==
    IF base = <<>> THEN url ELSE JoinParsed(url, urlsplit(base), urlsplit(url))

(***************************************************************************)
(* The state                                                               *)
(***************************************************************************)

VARIABLES
    \* Crawler.__init__: the configuration
    start_url,          \* self.start_url
    root_url,           \* self.root_url
    allow_subdomains,   \* self.allow_subdomains
    allow_queries,      \* self.allow_queries
    depth_by_desc,      \* self.depth_by_desc: <<>> is None, <<d>> is the int d
    concurrency,        \* self.concurrency
    \* Crawler.__init__: the results
    site_graph,         \* [node: id -> attributes, edges: set of <<parent, child>>]
    crawled_links,      \* self.crawled_links
    added_tasks,        \* self.added_tasks
    error_count,        \* self.error_count; a key that was never counted reads 0
    \* CrawlerQueue
    queue,              \* Queue._queue: the jobs <<id, url, parent_id, depth>>
    all_items,          \* CrawlerQueue.all_items
    items_added,        \* CrawlerQueue.items_added
    unfinished_tasks,   \* Queue._unfinished_tasks
    \* the tasks
    mainpc,             \* where _run_crawler / make_site_map stands
    pc,                 \* where each _link_worker stands
    job,                \* the job each worker holds, <<>> when none
    \* history, read by the properties only
    submitted,          \* every item handed to put / put_nowait, in order
    accepted,           \* every job CrawlerQueue._put enqueued, in order
    fetch_log,          \* the bag of the <<id, url>> whose fetch was started
    fetched_ok,         \* the ids of the jobs whose fetch returned markup
    marked_done,        \* the bag of the ids of the jobs task_done was called for
    last_call           \* the last call of a blocking function with its arguments
                        \* and its result, [fn |-> "none"] when none was made

config_vars == <<start_url, root_url, allow_subdomains, allow_queries,
                 depth_by_desc, concurrency>>
crawler_vars == <<site_graph, crawled_links, added_tasks, error_count>>
queue_vars == <<queue, all_items, items_added, unfinished_tasks>>
task_vars == <<mainpc, pc, job>>
history_vars == <<submitted, accepted, fetch_log, fetched_ok, marked_done, last_call>>
vars == <<config_vars, crawler_vars, queue_vars, task_vars, history_vars>>

(***************************************************************************)
(* crawler_config                                                          *)
(***************************************************************************)

\* crawler_config.unwanded_file_exts
unwanded_file_exts == {<<"p", "n", "g">>, <<"j", "p", "g">>, <<"p", "d", "f">>}

\* crawler_config.max_url_length
max_url_length == 32

(***************************************************************************)
(* Crawler: the blocking functions                                         *)
(***************************************************************************)

\* Crawler._has_root_url_only; self is the Crawler, as far as the blocking
\* functions read it: [root_url, allow_subdomains, allow_queries]
_has_root_url_only(self, url) == urlsplit(url).netloc = self.root_url

\* url_base.split(".")[-1:]
LastOne(parts) == SubSeq(parts, Len(parts), Len(parts))

\* url_base.split(".")[-2:]
LastTwo(parts) == SubSeq(parts, IF Len(parts) > 2 THEN Len(parts) - 1 ELSE 1, Len(parts))

\* Crawler._has_root_url_or_subdomain
_has_root_url_or_subdomain(self, url) ==
    StrJoin(LastTwo(StrSplit(urlsplit(url).netloc, ".")), ".") = self.root_url

\* self._has_root_url bound to the subdomain check whatever allow_subdomains is
HasRootUrlAnyPolicy(self, url) == _has_root_url_or_subdomain(self, url)

\* self._has_root_url, bound in __init__ by allow_subdomains
_has_root_url(self, url) ==
    IF self.allow_subdomains THEN _has_root_url_or_subdomain(self, url)
    ELSE _has_root_url_only(self, url)

\* the match of r"\A.*\.([a-zA-Z]+)\\?\Z" in body, whose last "." is at i
ExtensionAt(body, i) ==
    IF i > 0 /\ i < Len(body) /\ \A j \in (i + 1)..Len(body) : body[j] \in Letters
    THEN <<Suffix(body, i)>> ELSE <<>>

\* the link without the one backslash the pattern allows at its end
BeforeBackslash(link) ==
    IF Len(link) > 0 /\ link[Len(link)] = "\\"
    THEN SubSeq(link, 1, Len(link) - 1) ELSE link

\* re.findall(r"\A.*\.([a-zA-Z]+)\\?\Z", link): <<ext>> or <<>>
FindExtension(link) ==
    ExtensionAt(BeforeBackslash(link), RFind(BeforeBackslash(link), "."))

\* Crawler._remove_query
_remove_query(url) == urlunsplit([urlsplit(url) EXCEPT !.query = <<>>])

\* what a call gives that raised IndexError: no string, which is a sequence
\* of characters
IndexError == <<"IndexError">>

\* one "/" removed from the end of s, none from its start
StripOneSlash(s) ==
    IF Len(s) > 0 /\ s[Len(s)] = "/" THEN SubSeq(s, 1, Len(s) - 1) ELSE s

\* _normalize_link removing a single trailing slash
NormalizeLinkOneSlash(link, parent_link) ==
    IF link = <<>> THEN IndexError
    ELSE StripOneSlash(urldefrag(IF link[1] = "/" THEN urljoin(parent_link, link)
                                 ELSE link))

\* Crawler._normalize_link; link[0] raises IndexError when link is ""
_normalize_link(link, parent_link) ==
    IF link = <<>> THEN IndexError
    ELSE Strip(urldefrag(IF link[1] = "/" THEN urljoin(parent_link, link) ELSE link), "/")

\* _is_valid_link from the extension check on; the query check reads the
\* undefined names parent_url and url
ValidFromExtension(self, link, parent_link, extension) ==
    IF extension # <<>> /\ extension[1] \in unwanded_file_exts THEN "False"
    ELSE IF self.allow_queries THEN "NameError"
    ELSE IF Len(_normalize_link(link, parent_link)) > max_url_length THEN "False"
    ELSE "True"

\* Crawler._is_valid_link: "True", "False", or "NameError" when it raises
_is_valid_link(self, link, parent_link) ==
    IF link[1] = "#" THEN "False"
    ELSE IF link[1] = "/" /\ Prefix(link, 2) = <<"/", "/">> THEN "False"
    ELSE IF link[1] # "/" /\ ~_has_root_url(self, link) THEN "False"
    ELSE IF link[1] # "/" /\ Prefix(link, 4) # <<"h", "t", "t", "p">> THEN "False"
    ELSE ValidFromExtension(self, link, parent_link, FindExtension(link))

\* one turn of the loop of Crawler._filter_links, up to the test against
\* crawled_links: is the raw link valid, and what does it normalise to
FilterLink(self, link, parent_link) ==
    [valid |-> _is_valid_link(self, link, parent_link),
     link |-> _normalize_link(IF self.allow_queries THEN link ELSE _remove_query(link),
                              parent_link)]

(***************************************************************************)
(* The crawled site: what fetch_page and get_page_data give for each URL   *)
(***************************************************************************)

\* "http://g.co" and "http://m.g.co"
G == <<"h", "t", "t", "p", ":", "/", "/", "g", ".", "c", "o">>
M == <<"h", "t", "t", "p", ":", "/", "/", "m", ".", "g", ".", "c", "o">>

\* the start_url arguments tried: "http://g.co/" and "http://g.co/#s"
StartUrls == {G \o <<"/">>, G \o <<"/", "#", "s">>}

\* FetchError.error_type: "Splash Unreachable", "Splash Timeout", or a status
ErrorKinds == {"Splash Timeout", "404"}

\* "/long/long/long/long": on "http://m.g.co" it is a URL of 33 characters
LongPath == <<"/", "l", "o", "n", "g", "/", "l", "o", "n", "g", "/", "l", "o", "n", "g", "/", "l", "o", "n", "g">>

\* the links get_page_data finds in the markup fetched for url (never an
\* empty href: the anchors are matched on a non-empty href attribute)
PageLinks(url) ==
    CASE url \in {G, G \o <<"/", "#", "s">>} ->
            {<<"/", "1">>, G \o <<"/", "1", "#", "t">>, <<"/", "2", "?", "q">>}
      [] url = G \o <<"/", "1">> ->
            {G \o <<"/">>, <<"/", "3", "/">>, M \o <<"/">>}
      [] url = G \o <<"/", "2">> ->
            {<<"/", "1">>, <<"/", "3">>, <<"/", "p", ".", "p", "n", "g">>}
      [] url = G \o <<"/", "3">> ->
            {<<"/", "1">>, <<"#", "f">>,
             <<"h", "t", "t", "p", ":", "/", "/", "y", ".", "r", "u">>}
      [] url = M ->
            {<<"/", "/", "e", ".", "c", "o">>, LongPath}
      [] OTHER -> {}

\* the URLs whose markup has links
SitePages ==
    {G, G \o <<"/", "#", "s">>, G \o <<"/", "1">>, G \o <<"/", "2">>,
     G \o <<"/", "3">>, M}

\* the title get_page_data finds in the markup fetched for url
PageTitle(url) == IF url \in SitePages THEN <<"T">> \o url ELSE <<>>

\* Crawler.get_page_data on the markup fetched for url
get_page_data(url) == <<PageTitle(url), PageLinks(url)>>

\* the Crawler objects the start URLs and flags give
Selves ==
    [root_url : {urlsplit(url).netloc : url \in StartUrls},
     allow_subdomains : BOOLEAN, allow_queries : BOOLEAN]

\* f as an explicit table of its values
Tabulated(f) == f @@ <<>>

\* FilterLink for every crawler, page and link of the site, computed once
filter_cache ==
    Tabulated([self \in Selves |->
        Tabulated([page \in SitePages |->
            Tabulated([link \in PageLinks(page) |-> FilterLink(self, link, page)])])])

\* the orders in which a Python set of links may be iterated
Orders(S) ==
    {f \in [1..Cardinality(S) -> S] : \A i, j \in 1..Cardinality(S) : f[i] = f[j] => i = j}

(***************************************************************************)
(* CrawlerQueue(asyncio.Queue)                                             *)
(***************************************************************************)

\* the queue object, with the history of its calls
QueueObject ==
    [queue |-> queue, all_items |-> all_items, items_added |-> items_added,
     unfinished_tasks |-> unfinished_tasks,
     submitted |-> submitted, accepted |-> accepted]

\* CrawlerQueue._init: no job, no item seen, no id given
EmptyQueue ==
    [queue |-> <<>>, all_items |-> {}, items_added |-> 0, unfinished_tasks |-> 0,
     submitted |-> <<>>, accepted |-> <<>>]

\* _put with the id counted before the membership test
PutCountingFirst(q, item) ==
    IF item \notin q.all_items
    THEN [q EXCEPT !.items_added = @ + 1,
                   !.queue = Append(@, <<q.items_added + 1>> \o item),
                   !.all_items = @ \cup {item},
                   !.accepted = Append(@, <<q.items_added + 1>> \o item)]
    ELSE [q EXCEPT !.items_added = @ + 1]

\* CrawlerQueue._put
_put(q, item) ==
    IF item \notin q.all_items
    THEN [q EXCEPT !.items_added = @ + 1,
                   !.queue = Append(@, <<q.items_added + 1>> \o item),
                   !.all_items = @ \cup {item},
                   !.accepted = Append(@, <<q.items_added + 1>> \o item)]
    ELSE q

\* Queue.put_nowait / Queue.put on a queue without maxsize: _put, then one
\* more unfinished task
put_nowait(q, item) ==
    [_put([q EXCEPT !.submitted = Append(@, item)], item)
        EXCEPT !.unfinished_tasks = @ + 1]

\* task_done that leaves the count of unfinished tasks as it is
TaskDoneLost(q) == q

\* Queue.task_done
task_done(q) == [q EXCEPT !.unfinished_tasks = @ - 1]

\* the queue variables take the fields of q
QueueBecomes(q) ==
    /\ queue' = q.queue
    /\ all_items' = q.all_items
    /\ items_added' = q.items_added
    /\ unfinished_tasks' = q.unfinished_tasks
    /\ submitted' = q.submitted
    /\ accepted' = q.accepted

(***************************************************************************)
(* networkx.DiGraph                                                        *)
(***************************************************************************)

\* DiGraph.add_node(n, **attrs): a new node, or new attributes on an old one
add_node(g, n, attrs) ==
    LET old == IF n \in DOMAIN g.node THEN g.node[n] ELSE <<>>
    IN  [g EXCEPT !.node = (n :> (attrs @@ old)) @@ g.node]

\* DiGraph.add_edge(u, v): the edge, and either end when it is no node yet
add_edge(g, u, v) ==
    LET nu == IF u \in DOMAIN g.node THEN g.node ELSE (u :> <<>>) @@ g.node
        nv == IF v \in DOMAIN nu THEN nu ELSE (v :> <<>>) @@ nu
    IN  [g EXCEPT !.node = nv, !.edges = @ \cup {<<u, v>>}]

\* _add_graph_edge with the ends of the edge swapped
AddGraphEdgeReversed(g, node_id, parent_id, attrs) ==
    add_edge(add_node(g, node_id, attrs), node_id, parent_id)

\* _add_graph_edge writing the attributes on the parent's node
AddGraphEdgeOnParent(g, node_id, parent_id, attrs) ==
    add_edge(add_node(g, parent_id, attrs), parent_id, node_id)

\* Crawler._add_graph_edge
_add_graph_edge(g, node_id, parent_id, attrs) ==
    add_edge(add_node(g, node_id, attrs), parent_id, node_id)

(***************************************************************************)
(* Crawler.__init__                                                        *)
(***************************************************************************)

\* the largest concurrency and the largest depth_by_desc tried
MaxWorkers == 2
MaxDepthBound == 1

Workers == 1..concurrency

\* not self.depth_by_desc: None and 0 are both falsy
NoDepthBound(d) == d = <<>> \/ d[1] = 0

Init ==
    /\ \E url \in StartUrls :
          /\ start_url = Strip(url, "/")
          /\ root_url = urlsplit(url).netloc
          /\ crawled_links = {_normalize_link(url, <<>>)}
          /\ site_graph = [node |-> (0 :> [url |-> Strip(url, "/")]), edges |-> {},
                           frozen |-> FALSE]
    /\ allow_subdomains \in BOOLEAN
    /\ allow_queries \in BOOLEAN
    /\ depth_by_desc \in {<<>>} \cup {<<d>> : d \in 0..MaxDepthBound}
    /\ concurrency \in 1..MaxWorkers
    /\ added_tasks = {}
    /\ error_count = [k \in ErrorKinds |-> 0]
    /\ queue = EmptyQueue.queue
    /\ all_items = EmptyQueue.all_items
    /\ items_added = EmptyQueue.items_added
    /\ unfinished_tasks = EmptyQueue.unfinished_tasks
    /\ submitted = EmptyQueue.submitted
    /\ accepted = EmptyQueue.accepted
    /\ mainpc = "init"
    /\ pc = [w \in Workers |-> "new"]
    /\ job = [w \in Workers |-> <<>>]
    /\ fetch_log = EmptyBag
    /\ fetched_ok = {}
    /\ marked_done = EmptyBag
    /\ last_call = [fn |-> "none"]

(***************************************************************************)
(* Crawler._run_crawler and make_site_map                                  *)
(***************************************************************************)

\* _run_crawler creating one worker more than self.concurrency
RunCrawlerOneMore ==
    /\ mainpc = "init"
    /\ QueueBecomes(put_nowait(EmptyQueue, <<start_url, 0, 0>>))
    /\ pc' = [w \in 1..(concurrency + 1) |-> "get"]
    /\ mainpc' = "join"
    /\ UNCHANGED <<config_vars, crawler_vars, job, fetch_log, fetched_ok,
                   marked_done, last_call>>

\* _run_crawler up to its await: the queue, the seed job, the worker tasks
RunCrawler ==
    /\ mainpc = "init"
    /\ QueueBecomes(put_nowait(EmptyQueue, <<start_url, 0, 0>>))
    /\ pc' = [w \in Workers |-> "get"]
    /\ mainpc' = "join"
    /\ UNCHANGED <<config_vars, crawler_vars, job, fetch_log, fetched_ok,
                   marked_done, last_call>>

\* _run_crawler cancelling the workers without awaiting queue.join()
JoinReturnsEarly ==
    /\ mainpc = "join"
    /\ mainpc' = "gather"
    /\ UNCHANGED <<config_vars, crawler_vars, queue_vars, pc, job, history_vars>>

\* await queue.join() returns; worker.cancel() for every worker
JoinReturns ==
    /\ mainpc = "join"
    /\ unfinished_tasks = 0
    /\ mainpc' = "gather"
    /\ UNCHANGED <<config_vars, crawler_vars, queue_vars, pc, job, history_vars>>

\* a cancelled worker gets CancelledError at the await it is suspended in
Cancelled(w) ==
    /\ mainpc = "gather"
    /\ pc[w] \in {"get", "sleep", "fetch"}
    /\ pc' = [pc EXCEPT ![w] = "cancelled"]
    /\ UNCHANGED <<config_vars, crawler_vars, queue_vars, mainpc, job, history_vars>>

\* await asyncio.gather(*workers, return_exceptions=True) returns
GatherReturns ==
    /\ mainpc = "gather"
    /\ \A w \in Workers : pc[w] \in {"cancelled", "raised"}
    /\ mainpc' = "returned"
    /\ UNCHANGED <<config_vars, crawler_vars, queue_vars, pc, job, history_vars>>

\* make_site_map: networkx.freeze(self.site_graph)
Freeze ==
    /\ mainpc = "returned"
    /\ site_graph' = [site_graph EXCEPT !.frozen = TRUE]
    /\ mainpc' = "frozen"
    /\ UNCHANGED <<config_vars, crawled_links, added_tasks, error_count,
                   queue_vars, pc, job, history_vars>>

(***************************************************************************)
(* Crawler._link_worker and _process_link                                  *)
(***************************************************************************)

\* queue.get() of a LifoQueue: the job put last
GetLast(w) ==
    /\ mainpc = "join"
    /\ pc[w] = "get"
    /\ queue # <<>>
    /\ job' = [job EXCEPT ![w] = queue[Len(queue)]]
    /\ queue' = SubSeq(queue, 1, Len(queue) - 1)
    /\ pc' = [pc EXCEPT ![w] = "sleep"]
    /\ UNCHANGED <<config_vars, crawler_vars, all_items, items_added,
                   unfinished_tasks, mainpc, history_vars>>

\* queue.get() followed at once by queue.task_done(), before the processing
GetMarkingDone(w) ==
    /\ mainpc = "join"
    /\ pc[w] = "get"
    /\ queue # <<>>
    /\ job' = [job EXCEPT ![w] = Head(queue)]
    /\ queue' = Tail(queue)
    /\ unfinished_tasks' = unfinished_tasks - 1
    /\ pc' = [pc EXCEPT ![w] = "sleep"]
    /\ UNCHANGED <<config_vars, crawler_vars, all_items, items_added,
                   mainpc, history_vars>>

\* page_id, ... = await queue.get()
Get(w) ==
    /\ mainpc = "join"
    /\ pc[w] = "get"
    /\ queue # <<>>
    /\ job' = [job EXCEPT ![w] = Head(queue)]
    /\ queue' = Tail(queue)
    /\ pc' = [pc EXCEPT ![w] = "sleep"]
    /\ UNCHANGED <<config_vars, crawler_vars, all_items, items_added,
                   unfinished_tasks, mainpc, history_vars>>

\* await asyncio.sleep(...) returns and fetch_page sends its request
Sleep(w) ==
    /\ mainpc = "join"
    /\ pc[w] = "sleep"
    /\ pc' = [pc EXCEPT ![w] = "fetch"]
    /\ fetch_log' = BagAdd(fetch_log, <<job[w][1], job[w][2]>>)
    /\ UNCHANGED <<config_vars, crawler_vars, queue_vars, mainpc, job,
                   submitted, accepted, fetched_ok, marked_done, last_call>>

\* the Crawler, as far as the blocking functions read it
Self ==
    [root_url |-> root_url, allow_subdomains |-> allow_subdomains,
     allow_queries |-> allow_queries]

\* _filter_links yielding a link that was crawled
YieldsCrawled(f, crawled) == f.valid = "True"

\* Crawler._filter_links: the link is yielded when it is valid and its
\* normalised URL is not in self.crawled_links; f is FilterLink of the raw link
Yields(f, crawled) == f.valid = "True" /\ f.link \notin crawled

\* the turn of the loop without the test of self.added_tasks
ProcessLinkUnchecked(st, f, crawled, page_id, desc_level) ==
    IF f.valid = "NameError" THEN [st EXCEPT !.raised = TRUE, !.call.raised = TRUE]
    ELSE IF Yields(f, crawled)
    THEN [st EXCEPT !.call.result = BagAdd(@, f.link),
                    !.added_tasks = @ \cup {f.link},
                    !.q = put_nowait(@, <<f.link, page_id, desc_level + 1>>)]
    ELSE st

\* _process_link submitting a link at the depth of the page it was found on
ProcessLinkSameDepth(st, f, crawled, page_id, desc_level) ==
    IF f.valid = "NameError" THEN [st EXCEPT !.raised = TRUE, !.call.raised = TRUE]
    ELSE IF Yields(f, crawled) /\ f.link \notin st.added_tasks
    THEN [st EXCEPT !.call.result = BagAdd(@, f.link),
                    !.added_tasks = @ \cup {f.link},
                    !.q = put_nowait(@, <<f.link, page_id, desc_level>>)]
    ELSE IF Yields(f, crawled)
    THEN [st EXCEPT !.call.result = BagAdd(@, f.link)]
    ELSE st

\* one turn of the loop of _process_link over _filter_links(links, page_link):
\* f is FilterLink of the raw link
ProcessLink(st, f, crawled, page_id, desc_level) ==
    IF f.valid = "NameError" THEN [st EXCEPT !.raised = TRUE, !.call.raised = TRUE]
    ELSE IF Yields(f, crawled) /\ f.link \notin st.added_tasks
    THEN [st EXCEPT !.call.result = BagAdd(@, f.link),
                    !.added_tasks = @ \cup {f.link},
                    !.q = put_nowait(@, <<f.link, page_id, desc_level + 1>>)]
    ELSE IF Yields(f, crawled)
    THEN [st EXCEPT !.call.result = BagAdd(@, f.link)]
    ELSE st

\* the call _filter_links(links, parent_link) before its first turn
FilterLinksCall(links, parent_link) ==
    [fn |-> "_filter_links", links |-> links, parent_link |-> parent_link,
     result |-> EmptyBag, raised |-> FALSE]

\* one turn of the loop of _filter_links
FilterTurn(call, f, crawled) ==
    IF f.valid = "NameError" THEN [call EXCEPT !.raised = TRUE]
    ELSE IF Yields(f, crawled) THEN [call EXCEPT !.result = BagAdd(@, f.link)]
    ELSE call

\* Crawler._filter_links(links, parent_link) run to its end on the Crawler
\* self with self.crawled_links = crawled: call is the call so far, and
\* nothing is yielded after _is_valid_link raised
RECURSIVE _filter_links(_, _, _, _, _)
_filter_links(self, links, parent_link, crawled, call) ==
    IF Len(links) = 0 \/ call.raised THEN call
    ELSE _filter_links(self, Tail(links), parent_link, crawled,
                       FilterTurn(call, FilterLink(self, Head(links), parent_link),
                                  crawled))

\* the whole loop, for one iteration order of the links;
\* st = [q, added_tasks, raised, call], and nothing runs after _is_valid_link
\* raised
RECURSIVE ProcessLinks(_, _, _, _, _, _)
ProcessLinks(links, st, crawled, page_link, page_id, desc_level) ==
    IF Len(links) = 0 \/ st.raised THEN st
    ELSE ProcessLinks(Tail(links),
                      ProcessLink(st, filter_cache[Self][page_link][Head(links)],
                                  crawled, page_id, desc_level),
                      crawled, page_link, page_id, desc_level)

\* if not self.depth_by_desc or desc_level < self.depth_by_desc
Expands(desc_level) ==
    NoDepthBound(depth_by_desc) \/ desc_level < depth_by_desc[1]

\* the end of _process_link and of the turn of _link_worker: queue.task_done()
\* and back to queue.get(), or the exception ends the worker
EndOfJob(w, st) ==
    /\ added_tasks' = st.added_tasks
    /\ QueueBecomes(IF st.raised THEN st.q ELSE task_done(st.q))
    /\ pc' = [pc EXCEPT ![w] = IF st.raised THEN "raised" ELSE "get"]
    /\ job' = [job EXCEPT ![w] = IF st.raised THEN @ ELSE <<>>]
    /\ marked_done' = IF st.raised THEN marked_done ELSE BagAdd(marked_done, job[w][1])
    /\ last_call' = st.call

\* _process_link after fetch_page returned the markup
ProcessPage(w, page_id, page_link, parent_id, desc_level, page_data) ==
    /\ crawled_links' = crawled_links \cup {page_link}
    /\ site_graph' = _add_graph_edge(site_graph, page_id, parent_id,
                                     [url |-> page_link, title |-> page_data[1]])
    /\ fetched_ok' = fetched_ok \cup {page_id}
    /\ \E links \in (IF Expands(desc_level) THEN Orders(page_data[2]) ELSE {<<>>}) :
          EndOfJob(w, ProcessLinks(links,
                                   [q |-> QueueObject, added_tasks |-> added_tasks,
                                    raised |-> FALSE,
                                    call |-> IF Expands(desc_level)
                                             THEN FilterLinksCall(page_data[2], page_link)
                                             ELSE last_call],
                                   crawled_links \cup {page_link},
                                   page_link, page_id, desc_level))

\* fetch_page returns markup: _process_link to its end, then queue.task_done(),
\* unless _is_valid_link raises
FetchOk(w) ==
    /\ mainpc = "join"
    /\ pc[w] = "fetch"
    /\ ProcessPage(w, job[w][1], job[w][2], job[w][3], job[w][4],
                   get_page_data(job[w][2]))
    /\ UNCHANGED <<config_vars, error_count, mainpc, fetch_log>>

\* the FetchError counted, but the job left without queue.task_done()
FetchFailsNotDone(w, k) ==
    /\ mainpc = "join"
    /\ pc[w] = "fetch"
    /\ error_count' = [error_count EXCEPT ![k] = @ + 1]
    /\ pc' = [pc EXCEPT ![w] = "get"]
    /\ job' = [job EXCEPT ![w] = <<>>]
    /\ UNCHANGED <<config_vars, site_graph, crawled_links, added_tasks, queue_vars,
                   mainpc, history_vars>>

\* the FetchError counted, and the page that failed put in the graph
FetchFailsRecorded(w, k) ==
    /\ mainpc = "join"
    /\ pc[w] = "fetch"
    /\ error_count' = [error_count EXCEPT ![k] = @ + 1]
    /\ site_graph' = _add_graph_edge(site_graph, job[w][1], job[w][3],
                                     [url |-> job[w][2], error |-> k])
    /\ QueueBecomes(task_done(QueueObject))
    /\ pc' = [pc EXCEPT ![w] = "get"]
    /\ marked_done' = BagAdd(marked_done, job[w][1])
    /\ job' = [job EXCEPT ![w] = <<>>]
    /\ UNCHANGED <<config_vars, crawled_links, added_tasks, mainpc,
                   fetch_log, fetched_ok, last_call>>

\* fetch_page raises FetchError(k, ...): counted, then queue.task_done()
FetchFails(w, k) ==
    /\ mainpc = "join"
    /\ pc[w] = "fetch"
    /\ error_count' = [error_count EXCEPT ![k] = @ + 1]
    /\ QueueBecomes(task_done(QueueObject))
    /\ pc' = [pc EXCEPT ![w] = "get"]
    /\ marked_done' = BagAdd(marked_done, job[w][1])
    /\ job' = [job EXCEPT ![w] = <<>>]
    /\ UNCHANGED <<config_vars, site_graph, crawled_links, added_tasks, mainpc,
                   fetch_log, fetched_ok, last_call>>

\* the request ends in an aiohttp.ClientConnectionError that is no
\* ClientConnectorError: its handler reads e.status, which raises AttributeError
FetchRaises(w) ==
    /\ mainpc = "join"
    /\ pc[w] = "fetch"
    /\ pc' = [pc EXCEPT ![w] = "raised"]
    /\ UNCHANGED <<config_vars, crawler_vars, queue_vars, mainpc, job, history_vars>>

Next ==
    \/ RunCrawler
    \/ JoinReturns
    \/ GatherReturns
    \/ Freeze
    \/ \E w \in Workers : Cancelled(w)
    \/ \E w \in Workers : Get(w)
    \/ \E w \in Workers : Sleep(w)
    \/ \E w \in Workers : FetchOk(w)
    \/ \E w \in Workers, k \in ErrorKinds : FetchFails(w, k)
    \/ \E w \in Workers : FetchRaises(w)

Spec == Init /\ [][Next]_vars

(***************************************************************************)
(* The fairness of the asyncio event loop: while a task can run, a task is *)
(* run, and a request that was sent ends, with markup or with an exception.*)
(* No step of the crawl can be taken twice, so this is all the scheduling  *)
(* that termination needs; it is weaker than fairness to each task.        *)
(***************************************************************************)

Fairness == WF_vars(Next)

LiveSpec == Init /\ [][Next]_vars /\ Fairness

(***************************************************************************)
(* CrawlerQueue on its own: one caller that submits any items, takes jobs  *)
(* and marks them done                                                     *)
(***************************************************************************)

\* the most submits tried
MaxSubmits == 3

\* the items submitted: two URLs, each from two parents at two depths
QueueItems ==
    {<<url, parent_id, depth>> :
        url \in {G \o <<"/", "1">>, G \o <<"/", "2">>},
        parent_id \in {1, 2}, depth \in {1, 2}}

QueueInit ==
    /\ Init
    /\ start_url = G
    /\ allow_subdomains /\ ~allow_queries
    /\ depth_by_desc = <<>>
    /\ concurrency = 1

\* queue.put_nowait(item)
Submit(item) ==
    /\ Len(submitted) < MaxSubmits
    /\ QueueBecomes(put_nowait(QueueObject, item))
    /\ UNCHANGED <<config_vars, crawler_vars, task_vars, fetch_log, fetched_ok,
                   marked_done, last_call>>

\* queue.get_nowait()
Take ==
    /\ pc[1] = "new"
    /\ queue # <<>>
    /\ job' = [job EXCEPT ![1] = Head(queue)]
    /\ queue' = Tail(queue)
    /\ pc' = [pc EXCEPT ![1] = "taken"]
    /\ UNCHANGED <<config_vars, crawler_vars, all_items, items_added,
                   unfinished_tasks, mainpc, history_vars>>

\* queue.task_done() for the job taken
MarkDone ==
    /\ pc[1] = "taken"
    /\ QueueBecomes(task_done(QueueObject))
    /\ marked_done' = BagAdd(marked_done, job[1][1])
    /\ job' = [job EXCEPT ![1] = <<>>]
    /\ pc' = [pc EXCEPT ![1] = "new"]
    /\ UNCHANGED <<config_vars, crawler_vars, mainpc, fetch_log, fetched_ok, last_call>>

QueueNext ==
    \/ \E item \in QueueItems : Submit(item)
    \/ Take
    \/ MarkDone

QueueSpec == QueueInit /\ [][QueueNext]_vars

(***************************************************************************)
(* The blocking functions on their own: a Crawler is constructed as the    *)
(* tests construct it, and one of its blocking functions is called once.   *)
(***************************************************************************)

\* "https://google.com"
GoogleUrl ==
    <<"h", "t", "t", "p", "s", ":", "/", "/", "g", "o", "o", "g", "l", "e",
    ".", "c", "o", "m">>

\* "https://google.com/"
GoogleSlash ==
    <<"h", "t", "t", "p", "s", ":", "/", "/", "g", "o", "o", "g", "l", "e",
    ".", "c", "o", "m", "/">>

\* "https://google.com/search"
GoogleSearch ==
    <<"h", "t", "t", "p", "s", ":", "/", "/", "g", "o", "o", "g", "l", "e",
    ".", "c", "o", "m", "/", "s", "e", "a", "r", "c", "h">>

\* "https://yandex.ru/search"
YandexSearch ==
    <<"h", "t", "t", "p", "s", ":", "/", "/", "y", "a", "n", "d", "e", "x",
    ".", "r", "u", "/", "s", "e", "a", "r", "c", "h">>

\* "https://mail.google.com"
MailGoogle ==
    <<"h", "t", "t", "p", "s", ":", "/", "/", "m", "a", "i", "l", ".", "g",
    "o", "o", "g", "l", "e", ".", "c", "o", "m">>

\* "https://mail.google.com/"
MailGoogleSlash ==
    <<"h", "t", "t", "p", "s", ":", "/", "/", "m", "a", "i", "l", ".", "g",
    "o", "o", "g", "l", "e", ".", "c", "o", "m", "/">>

\* "https://google.com/1.html"
Google1 ==
    <<"h", "t", "t", "p", "s", ":", "/", "/", "g", "o", "o", "g", "l", "e",
    ".", "c", "o", "m", "/", "1", ".", "h", "t", "m", "l">>

\* "https://google.com/2.html"
Google2 ==
    <<"h", "t", "t", "p", "s", ":", "/", "/", "g", "o", "o", "g", "l", "e",
    ".", "c", "o", "m", "/", "2", ".", "h", "t", "m", "l">>

\* "https://google.com/3.html"
Google3 ==
    <<"h", "t", "t", "p", "s", ":", "/", "/", "g", "o", "o", "g", "l", "e",
    ".", "c", "o", "m", "/", "3", ".", "h", "t", "m", "l">>

\* "https://google.com/3.html#test"
Google3Test ==
    <<"h", "t", "t", "p", "s", ":", "/", "/", "g", "o", "o", "g", "l", "e",
    ".", "c", "o", "m", "/", "3", ".", "h", "t", "m", "l", "#", "t", "e",
    "s", "t">>

\* "https://google.com/4.html"
Google4 ==
    <<"h", "t", "t", "p", "s", ":", "/", "/", "g", "o", "o", "g", "l", "e",
    ".", "c", "o", "m", "/", "4", ".", "h", "t", "m", "l">>

\* "https://google.com/picture.png"
GooglePicture ==
    <<"h", "t", "t", "p", "s", ":", "/", "/", "g", "o", "o", "g", "l", "e",
    ".", "c", "o", "m", "/", "p", "i", "c", "t", "u", "r", "e", ".", "p",
    "n", "g">>

\* "/4.html"
Relative4 ==
    <<"/", "4", ".", "h", "t", "m", "l">>

\* "https://yandex.ru"
Yandex ==
    <<"h", "t", "t", "p", "s", ":", "/", "/", "y", "a", "n", "d", "e", "x",
    ".", "r", "u">>

\* "mailto:admin@gmail.com"
Mailto ==
    <<"m", "a", "i", "l", "t", "o", ":", "a", "d", "m", "i", "n", "@", "g",
    "m", "a", "i", "l", ".", "c", "o", "m">>

\* "#fragment"
Fragment ==
    <<"#", "f", "r", "a", "g", "m", "e", "n", "t">>

\* "ftp://google.com"
FtpGoogle ==
    <<"f", "t", "p", ":", "/", "/", "g", "o", "o", "g", "l", "e", ".", "c",
    "o", "m">>

\* "/help"
Help ==
    <<"/", "h", "e", "l", "p">>

\* "#help"
HashHelp ==
    <<"#", "h", "e", "l", "p">>

\* "https.google.com/#help"
DotHelp ==
    <<"h", "t", "t", "p", "s", ".", "g", "o", "o", "g", "l", "e", ".", "c",
    "o", "m", "/", "#", "h", "e", "l", "p">>

\* "//evil.com"
Evil ==
    <<"/", "/", "e", "v", "i", "l", ".", "c", "o", "m">>

\* "https://google.com/help"
GoogleHelp ==
    <<"h", "t", "t", "p", "s", ":", "/", "/", "g", "o", "o", "g", "l", "e",
    ".", "c", "o", "m", "/", "h", "e", "l", "p">>

\* "https://mail.google.com/help#fragment"
MailHelpFragment ==
    <<"h", "t", "t", "p", "s", ":", "/", "/", "m", "a", "i", "l", ".", "g",
    "o", "o", "g", "l", "e", ".", "c", "o", "m", "/", "h", "e", "l", "p",
    "#", "f", "r", "a", "g", "m", "e", "n", "t">>

\* "/help//"
HelpSlashes ==
    <<"/", "h", "e", "l", "p", "/", "/">>

\* "/help/help/help"
TooLong ==
    <<"/", "h", "e", "l", "p", "/", "h", "e", "l", "p", "/", "h", "e", "l",
    "p">>

\* "https://google.com/a?#f"
GoogleQueryFragment ==
    <<"h", "t", "t", "p", "s", ":", "/", "/", "g", "o", "o", "g", "l", "e",
    ".", "c", "o", "m", "/", "a", "?", "#", "f">>

\* "HTTPS://google.com/a#f"
UpperFragment ==
    <<"H", "T", "T", "P", "S", ":", "/", "/", "g", "o", "o", "g", "l", "e",
    ".", "c", "o", "m", "/", "a", "#", "f">>

\* conftest.checkup_html["title_nonempty_links"][1]: the links of the test page
checkup_links ==
    {Fragment, Relative4, FtpGoogle, GoogleSlash, Google1, Google2, Google3Test,
     GooglePicture, MailGoogleSlash, Yandex, Mailto}

\* conftest.checkup_html["filter_result_subdomains"]
filter_result_subdomains == {Google1, Google2, Google3, Google4, MailGoogle}

\* conftest.checkup_html["filter_result_wo_subdomains"]
filter_result_wo_subdomains == {Google1, Google2, Google3, Google4}

\* the links and URLs the functions are called with: those of the tests, of
\* the test page, and some more
TestLinks ==
    checkup_links
    \cup {GoogleSearch, YandexSearch, MailGoogle, Help, HashHelp, DotHelp, Evil,
          GoogleHelp, MailHelpFragment, HelpSlashes, TooLong, GoogleQueryFragment,
          UpperFragment, <<"/">>, <<"#">>}

\* the parent links: "https://google.com", "https://google.com/" and ""
TestParents == {GoogleUrl, GoogleSlash, <<>>}

\* the sets of links _filter_links is called with
TestLinkSets ==
    {checkup_links, {Relative4, Google4}, {Help, GoogleHelp, HelpSlashes},
     {GoogleSlash, HashHelp, Evil}}

\* one order of iteration of the set S
RECURSIVE SomeOrder(_)
SomeOrder(S) ==
    IF S = {} THEN <<>>
    ELSE LET x == CHOOSE x \in S : TRUE IN <<x>> \o SomeOrder(S \ {x})

\* cr = crawler.Crawler("https://google.com", "", allow_subdomains=...,
\* allow_queries=...)
BlockingInit ==
    /\ start_url = Strip(GoogleUrl, "/")
    /\ root_url = urlsplit(GoogleUrl).netloc
    /\ allow_subdomains \in BOOLEAN
    /\ allow_queries \in BOOLEAN
    /\ depth_by_desc = <<>>
    /\ concurrency = 1
    /\ site_graph = [node |-> (0 :> [url |-> Strip(GoogleUrl, "/")]), edges |-> {},
                     frozen |-> FALSE]
    /\ crawled_links = {_normalize_link(GoogleUrl, <<>>)}
    /\ added_tasks = {}
    /\ error_count = [k \in ErrorKinds |-> 0]
    /\ queue = EmptyQueue.queue
    /\ all_items = EmptyQueue.all_items
    /\ items_added = EmptyQueue.items_added
    /\ unfinished_tasks = EmptyQueue.unfinished_tasks
    /\ submitted = EmptyQueue.submitted
    /\ accepted = EmptyQueue.accepted
    /\ mainpc = "init"
    /\ pc = [w \in Workers |-> "new"]
    /\ job = [w \in Workers |-> <<>>]
    /\ fetch_log = EmptyBag
    /\ fetched_ok = {}
    /\ marked_done = EmptyBag
    /\ last_call = [fn |-> "none"]

\* a blocking function reads the Crawler and changes nothing
Called(call) ==
    /\ last_call.fn = "none"
    /\ last_call' = call
    /\ UNCHANGED <<config_vars, crawler_vars, queue_vars, task_vars,
                   submitted, accepted, fetch_log, fetched_ok, marked_done>>

\* cr._has_root_url(url)
CallHasRootUrl(url) ==
    Called([fn |-> "_has_root_url", url |-> url, result |-> _has_root_url(Self, url)])

\* cr._is_valid_link(link, parent_link)
CallIsValidLink(link, parent_link) ==
    Called([fn |-> "_is_valid_link", link |-> link, parent_link |-> parent_link,
            result |-> _is_valid_link(Self, link, parent_link)])

\* cr._normalize_link(link, parent_link)
CallNormalizeLink(link, parent_link) ==
    Called([fn |-> "_normalize_link", link |-> link, parent_link |-> parent_link,
            result |-> _normalize_link(link, parent_link)])

\* list(cr._filter_links(links, parent_link))
CallFilterLinks(links, parent_link) ==
    Called(_filter_links(Self, SomeOrder(links), parent_link, crawled_links,
                         FilterLinksCall(links, parent_link)))

BlockingNext ==
    \/ \E url \in TestLinks : CallHasRootUrl(url)
    \/ \E link \in TestLinks, parent_link \in TestParents :
          CallIsValidLink(link, parent_link)
    \/ \E link \in TestLinks \cup {<<>>}, parent_link \in TestParents :
          CallNormalizeLink(link, parent_link)
    \/ \E links \in TestLinkSets, parent_link \in {GoogleUrl, GoogleSlash} :
          CallFilterLinks(links, parent_link)

BlockingSpec == BlockingInit /\ [][BlockingNext]_vars

(***************************************************************************)
(* What the properties read                                                *)
(***************************************************************************)

\* the sum of the error tally
RECURSIVE SumOver(_, _)
SumOver(f, S) ==
    IF S = {} THEN 0
    ELSE LET k == CHOOSE x \in S : TRUE IN f[k] + SumOver(f, S \ {k})

TotalErrors == SumOver(error_count, ErrorKinds)

\* the normalised URLs of a list of jobs or items whose URL is field n
NormalizedUrls(list, n) == [i \in 1..Len(list) |-> _normalize_link(list[i][n], <<>>)]

\* no value twice in a list
NoRepeat(list) == \A i, j \in 1..Len(list) : list[i] = list[j] => i = j

\* the jobs taken from the queue and not yet marked done
InFlight == {w \in Workers : job[w] # <<>>}

\* no worker has left its loop by an exception
NoWorkerRaised == \A w \in Workers : pc[w] # "raised"

(***************************************************************************)
(* C1: each normalised URL becomes a job and is fetched at most once in a  *)
(* crawl: no two accepted jobs and no two submits have the same normalised *)
(* URL (a URL found on several pages, found again after its fetch failed,  *)
(* or equal to the normalised seed URL is not submitted again), and every  *)
(* fetch is the one fetch of an accepted job.                              *)
(***************************************************************************)
C1_EachUrlOnce ==
    /\ NoRepeat(NormalizedUrls(accepted, 2))
    /\ NoRepeat(NormalizedUrls(submitted, 1))
    /\ \A e \in BagToSet(fetch_log) :
          /\ CopiesIn(e, fetch_log) = 1
          /\ \E i \in 1..Len(accepted) : accepted[i][1] = e[1] /\ accepted[i][2] = e[2]
          /\ \A f \in BagToSet(fetch_log) : f[1] = e[1] => f = e

\* one worker; the fetch of /1 failed, then /2 and /3 were fetched, and both
\* link to /1 again; the crawl has ended
C1_Witness ==
    /\ mainpc = "frozen"
    /\ concurrency = 1
    /\ TotalErrors = 1
    /\ \E i, j, k \in 1..Len(accepted) :
          /\ i < j /\ j < k
          /\ accepted[i][2] = G \o <<"/", "1">> /\ i \notin fetched_ok
          /\ accepted[j][2] = G \o <<"/", "2">> /\ j \in fetched_ok
          /\ accepted[k][2] = G \o <<"/", "3">> /\ k \in fetched_ok

(***************************************************************************)
(* C2: termination.  With query crawling disabled, in a fairly scheduled   *)
(* run where every fetch returns markup or raises FetchError (so that no   *)
(* worker is ended by another exception), _run_crawler eventually ends:    *)
(* every accepted job was taken and marked done, join() has returned and   *)
(* every worker is cancelled.                                              *)
(***************************************************************************)
CrawlEnded ==
    /\ mainpc \in {"returned", "frozen"}
    /\ queue = <<>>
    /\ unfinished_tasks = 0
    /\ BagCardinality(fetch_log) = Len(accepted)
    /\ \A w \in Workers : pc[w] = "cancelled" /\ job[w] = <<>>

C2_Termination ==
    (~allow_queries /\ []NoWorkerRaised) => <>CrawlEnded

\* two workers have ended a crawl of four or more jobs, one of which failed
C2_Witness ==
    /\ CrawlEnded
    /\ ~allow_queries
    /\ concurrency = 2
    /\ Len(accepted) >= 4
    /\ TotalErrors >= 1

(***************************************************************************)
(* C3: error isolation.  The step in which a worker's fetch ends without   *)
(* its job becoming a fetched page is the step of a FetchError of some     *)
(* kind k: the tally of k grows by one and no other tally changes, the     *)
(* graph gets no node and no edge, nothing is submitted, the job is marked *)
(* done (one unfinished task less, the worker back at queue.get()), and    *)
(* the queued jobs and the other workers with their jobs are untouched.    *)
(* And the tally only ever changes in such a step.                         *)
(***************************************************************************)
FailedFetchStep(w) ==
    /\ pc[w] = "fetch"
    /\ pc'[w] = "get"
    /\ job[w][1] \notin fetched_ok'

FailedFetchEffect(w) ==
    /\ \E k \in ErrorKinds :
          /\ error_count'[k] = error_count[k] + 1
          /\ \A o \in ErrorKinds \ {k} : error_count'[o] = error_count[o]
    /\ site_graph' = site_graph
    /\ crawled_links' = crawled_links
    /\ added_tasks' = added_tasks
    /\ submitted' = submitted /\ accepted' = accepted
    /\ queue' = queue /\ all_items' = all_items /\ items_added' = items_added
    /\ unfinished_tasks' = unfinished_tasks - 1
    /\ job'[w] = <<>>
    /\ \A v \in Workers \ {w} : pc'[v] = pc[v] /\ job'[v] = job[v]
    /\ mainpc' = mainpc

C3_ErrorIsolation ==
    [][/\ \A w \in Workers : FailedFetchStep(w) => FailedFetchEffect(w)
       /\ error_count' # error_count => \E w \in Workers : FailedFetchStep(w)]_vars

\* a fetch failed with 404 while the other worker held a job; the crawl went
\* on to record later pages and join() returned
C3_Witness ==
    /\ mainpc = "frozen"
    /\ concurrency = 2
    /\ error_count["404"] = 1
    /\ error_count["Splash Timeout"] = 0
    /\ Cardinality(fetched_ok) >= 3
    /\ \E i \in 1..Len(accepted) :
          /\ i \notin fetched_ok
          /\ i \notin DOMAIN site_graph.node
          /\ \E j \in fetched_ok : j > i

(***************************************************************************)
(* C4: no worker leaves its loop except by the cancellation that follows   *)
(* join(): for every configuration, allow_queries = True included, neither *)
(* link validation nor any failure of the fetch raises out of the worker.  *)
(***************************************************************************)
C4_NoFatalErrorPath == NoWorkerRaised

(***************************************************************************)
(* C5: depth bound.  For every configured integer bound D, 0 included, a   *)
(* job of depth >= D whose fetch succeeds is recorded as a node with its   *)
(* edge and submits nothing: every item submitted from a page comes from a *)
(* job of depth < D.                                                       *)
(***************************************************************************)
C5_DepthBound ==
    /\ \A id \in fetched_ok :
          /\ id \in DOMAIN site_graph.node
          /\ \E e \in site_graph.edges : e[2] = id
    /\ depth_by_desc # <<>> =>
          \A i \in 1..Len(submitted) :
             submitted[i][2] # 0 => submitted[i][3] - 1 < depth_by_desc[1]

(***************************************************************************)
(* C6: the queue's dedup is keyed by the URL: whatever the parent_id and   *)
(* depth of the submits, a submit is accepted if and only if no earlier    *)
(* submit with the same URL was accepted, so no two accepted jobs have the *)
(* same URL.                                                               *)
(***************************************************************************)
C6_DedupByUrl ==
    /\ \A i, j \in 1..Len(accepted) : accepted[i][2] = accepted[j][2] => i = j
    /\ \A i \in 1..Len(submitted) :
          \E j \in 1..Len(accepted) : accepted[j][2] = submitted[i][1]

(***************************************************************************)
(* C7: job ids.  The accepted jobs have the ids 1, 2, ..., n in the order  *)
(* of acceptance, the id counter stands at n, each accepted job is one     *)
(* distinct item, and the jobs queued are accepted jobs in increasing id   *)
(* order: a rejected submit consumes no id.                                *)
(***************************************************************************)
C7_JobIds ==
    /\ \A i \in 1..Len(accepted) : accepted[i][1] = i
    /\ items_added = Len(accepted)
    /\ Cardinality(all_items) = Len(accepted)
    /\ Len(accepted) <= Len(submitted)
    /\ \A i \in 1..Len(queue) :
          /\ queue[i][1] \in 1..Len(accepted)
          /\ accepted[queue[i][1]] = queue[i]
          /\ i < Len(queue) => queue[i][1] < queue[i + 1][1]

\* an item was accepted, the same item was then rejected, and the next item
\* accepted has id 2
C7_Witness ==
    /\ Len(submitted) = 3
    /\ submitted[1] = submitted[2]
    /\ submitted[3] # submitted[1]
    /\ Len(accepted) = 2
    /\ accepted[2] = <<2>> \o submitted[3]
    /\ items_added = 2

(***************************************************************************)
(* C8: graph shape.  In every state, frozen or not, every node but 0 has   *)
(* exactly one incoming edge, node 0 has none, and the source of every     *)
(* edge is a node recorded as a page (with its url); and in the step that  *)
(* adds an edge, its source was such a node before the step.               *)
(***************************************************************************)
RecordedPages(g) == {n \in DOMAIN g.node : "url" \in DOMAIN g.node[n]}

GraphShape ==
    /\ \A n \in DOMAIN site_graph.node \ {0} :
          Cardinality({e \in site_graph.edges : e[2] = n}) = 1
    /\ \A e \in site_graph.edges :
          /\ e[2] # 0
          /\ e[2] \in DOMAIN site_graph.node
          /\ e[1] \in RecordedPages(site_graph)

SourceRecordedFirst ==
    \A e \in site_graph.edges' \ site_graph.edges : e[1] \in RecordedPages(site_graph)

C8_GraphShape == []GraphShape /\ [][SourceRecordedFirst]_vars

\* a frozen graph of four nodes in which a page found on page 1 hangs below
\* it, after a fetch failed
C8_Witness ==
    /\ site_graph.frozen
    /\ concurrency = 2
    /\ TotalErrors >= 1
    /\ Cardinality(DOMAIN site_graph.node) >= 4
    /\ \E e \in site_graph.edges : e[1] = 1
    /\ <<0, 1>> \in site_graph.edges

(***************************************************************************)
(* C9: the nodes of the graph are 0 and the ids of the jobs whose fetch    *)
(* succeeded, each of them a job that was accepted and whose fetch was     *)
(* sent; before any worker runs the one node is 0, with the seed URL.      *)
(***************************************************************************)
C9_NodeSet ==
    /\ DOMAIN site_graph.node = {0} \cup fetched_ok
    /\ site_graph.node[0] = [url |-> start_url]
    /\ \A id \in fetched_ok :
          /\ id \in 1..Len(accepted)
          /\ <<id, accepted[id][2]>> \in BagToSet(fetch_log)
          /\ site_graph.node[id].url = accepted[id][2]
    /\ mainpc = "init" => DOMAIN site_graph.node = {0}

\* two fetches failed and two succeeded: the graph has nodes 0 and the two
\* ids, and the crawl has ended
C9_Witness ==
    /\ mainpc = "frozen"
    /\ TotalErrors = 2
    /\ Cardinality(fetched_ok) = 2
    /\ Len(accepted) = 4
    /\ Cardinality(DOMAIN site_graph.node) = 3

(***************************************************************************)
(* C10: concurrency bound.  The workers are those created at the start,    *)
(* self.concurrency of them; each holds at most one job, the jobs taken    *)
(* and not yet done are the jobs the workers hold, and the fetches sent    *)
(* and not yet ended are those of the workers inside fetch_page, so at     *)
(* most self.concurrency, however many jobs are queued.                    *)
(***************************************************************************)
FetchesEnded ==
    Cardinality(fetched_ok) + TotalErrors
    + Cardinality({w \in DOMAIN pc : pc[w] = "raised" /\ job[w][1] \notin fetched_ok})

FetchesInFlight == BagCardinality(fetch_log) - FetchesEnded

C10_ConcurrencyBound ==
    /\ DOMAIN pc = 1..concurrency
    /\ DOMAIN job = 1..concurrency
    /\ unfinished_tasks - Len(queue) = Cardinality(InFlight)
    /\ Cardinality(InFlight) <= concurrency
    /\ FetchesInFlight = Cardinality({w \in DOMAIN pc : pc[w] = "fetch"})
    /\ FetchesInFlight <= concurrency

\* both workers are inside fetch_page while another job waits in the queue
C10_Witness ==
    /\ concurrency = 2
    /\ \A w \in Workers : pc[w] = "fetch"
    /\ FetchesInFlight = 2
    /\ Len(queue) >= 1

(***************************************************************************)
(* C11: expansion set.  With query crawling disabled, _filter_links on a   *)
(* page's raw links does not raise and yields exactly the normalised,      *)
(* query-stripped URLs of the valid links that are not in crawled_links;   *)
(* for the test page on seed https://google.com these are 1.html, 2.html,  *)
(* 3.html, 4.html and https://mail.google.com, each once, with subdomains  *)
(* allowed, and the same without https://mail.google.com when not.         *)
(***************************************************************************)
ValidLinks(links, parent_link) ==
    {l \in links : _is_valid_link(Self, l, parent_link) = "True"}

C11_ExpansionSet ==
    (last_call.fn = "_filter_links" /\ ~allow_queries) =>
        /\ ~last_call.raised
        /\ BagToSet(last_call.result)
              = {_normalize_link(_remove_query(l), last_call.parent_link) :
                    l \in ValidLinks(last_call.links, last_call.parent_link)}
                \ crawled_links
        /\ (last_call.links = checkup_links /\ last_call.parent_link = GoogleUrl) =>
              last_call.result = SetToBag(IF allow_subdomains
                                          THEN filter_result_subdomains
                                          ELSE filter_result_wo_subdomains)

\* the test page was filtered with subdomains allowed: five URLs, among them
\* https://mail.google.com, and neither the seed nor the picture
C11_Witness ==
    /\ last_call.fn = "_filter_links"
    /\ last_call.links = checkup_links
    /\ last_call.parent_link = GoogleUrl
    /\ allow_subdomains /\ ~allow_queries
    /\ BagCardinality(last_call.result) = 5
    /\ BagIn(MailGoogle, last_call.result)
    /\ ~BagIn(GoogleUrl, last_call.result)

(***************************************************************************)
(* C12: subdomain policy.  With root host google.com, _has_root_url is     *)
(* true of a URL on google.com and false of a URL on yandex.ru under both  *)
(* policies, and of a URL on mail.google.com it is allow_subdomains.       *)
(***************************************************************************)
Host(url) == urlsplit(url).netloc

C12_SubdomainPolicy ==
    last_call.fn = "_has_root_url" =>
        /\ Host(last_call.url) = Host(GoogleUrl) => last_call.result
        /\ Host(last_call.url) = Host(Yandex) => ~last_call.result
        /\ Host(last_call.url) = Host(MailGoogle) =>
              last_call.result = allow_subdomains
        /\ last_call.url = GoogleSearch => last_call.result
        /\ last_call.url = YandexSearch => ~last_call.result

\* https://mail.google.com was refused with subdomains not allowed
C12_Witness ==
    /\ last_call.fn = "_has_root_url"
    /\ last_call.url = MailGoogle
    /\ ~allow_subdomains
    /\ ~last_call.result

(***************************************************************************)
(* C13: _is_valid_link is False of every link that begins with "#", of     *)
(* every link that begins with "//", and of every link not beginning with  *)
(* "/" that does not begin with "http" or whose host fails the host check; *)
(* it is True of a link "/path" that has no denied extension and whose     *)
(* normalised URL is within the length limit.                              *)
(***************************************************************************)
NoDeniedExtension(link) ==
    FindExtension(link) = <<>> \/ FindExtension(link)[1] \notin unwanded_file_exts

C13_ValidLinkRules ==
    last_call.fn = "_is_valid_link" =>
        /\ last_call.link[1] = "#" => last_call.result = "False"
        /\ Prefix(last_call.link, 2) = <<"/", "/">> => last_call.result = "False"
        /\ (/\ last_call.link[1] \notin {"/", "#"}
            /\ \/ Prefix(last_call.link, 4) # <<"h", "t", "t", "p">>
               \/ ~_has_root_url(Self, last_call.link))
              => last_call.result = "False"
        /\ (/\ last_call.link[1] = "/"
            /\ Prefix(last_call.link, 2) # <<"/", "/">>
            /\ NoDeniedExtension(last_call.link)
            /\ Len(_normalize_link(last_call.link, last_call.parent_link))
                  <= max_url_length)
              => last_call.result = "True"

(***************************************************************************)
(* C14 as stated: whenever _normalize_link(u, b) is defined, normalising   *)
(* its result again gives the same result; the result has no fragment and  *)
(* no trailing slash; and an absolute link is returned as it is but for    *)
(* its fragment and its trailing slashes.                                  *)
(***************************************************************************)
\* s up to its first "#"
BeforeFragment(s) == IF Find(s, "#") > 0 THEN SubSeq(s, 1, Find(s, "#") - 1) ELSE s

NoFragmentNoSlash(s) ==
    /\ Find(s, "#") = 0
    /\ s # <<>> => s[1] # "/" /\ s[Len(s)] # "/"

TakenIds == {i \in 1..Len(accepted) : \A k \in 1..Len(queue) : queue[k][1] # i}

\* the ids of the jobs whose processing has not ended
ProcessedIds == {job[w][1] : w \in {v \in Workers : pc[v] \in {"sleep", "fetch"}}}

C15_TaskDoneOncePerJob ==
    /\ \A id \in BagToSet(marked_done) :
          /\ CopiesIn(id, marked_done) = 1
          /\ id \in TakenIds
          /\ \A w \in Workers : job[w] # <<>> => job[w][1] # id
    /\ \A id \in TakenIds : id \in ProcessedIds \/ BagIn(id, marked_done)
    /\ \A w \in Workers : pc[w] = "get" => job[w] = <<>>

(***************************************************************************)
(* C16: for any sequence of submits, takes and task_done calls, rejected   *)
(* submits included, the counter of unfinished tasks is the number of      *)
(* accepted jobs not yet marked done, so that it is 0, and join() returns, *)
(* as soon as every accepted job has been taken and marked done.           *)
(***************************************************************************)
C16_OutstandingCounter ==
    /\ unfinished_tasks = Len(accepted) - BagCardinality(marked_done)
    /\ (queue = <<>> /\ BagCardinality(marked_done) = Len(accepted)) =>
          unfinished_tasks = 0

(***************************************************************************)
(* C17: shutdown ordering.  The workers are cancelled only after join()    *)
(* returned with no unfinished task; _run_crawler returns only when every  *)
(* worker is cancelled; the graph is frozen only after that; and from the  *)
(* return on no node, edge, crawled link or error count changes.           *)
(***************************************************************************)
ShutdownOrder ==
    /\ mainpc \in {"gather", "returned", "frozen"} =>
          unfinished_tasks = 0 /\ queue = <<>> /\ InFlight = {}
    /\ (\E w \in Workers : pc[w] = "cancelled") =>
          mainpc \in {"gather", "returned", "frozen"}
    /\ mainpc \in {"returned", "frozen"} => \A w \in Workers : pc[w] = "cancelled"
    /\ site_graph.frozen <=> mainpc = "frozen"

NoChangeAfterReturn ==
    mainpc \in {"returned", "frozen"} =>
        /\ site_graph'.node = site_graph.node
        /\ site_graph'.edges = site_graph.edges
        /\ crawled_links' = crawled_links
        /\ added_tasks' = added_tasks
        /\ error_count' = error_count

C17_ShutdownOrdering == []ShutdownOrder /\ [][NoChangeAfterReturn]_vars

\* the graph of a crawl by two workers is frozen, with three pages fetched
C17_Witness ==
    /\ mainpc = "frozen"
    /\ site_graph.frozen
    /\ concurrency = 2
    /\ Cardinality(fetched_ok) = 3
    /\ \A w \in Workers : pc[w] = "cancelled"

(***************************************************************************)
(* C18: write-once graph.  In every step the nodes and the edges stay and  *)
(* every node keeps its attributes, the root included; a step adds at most *)
(* one node and one edge, and the step in which a job's fetch succeeds     *)
(* adds the job's id as a node that was none before: _add_graph_edge is    *)
(* called at most once for an id.                                          *)
(***************************************************************************)
WriteOnce ==
    /\ DOMAIN site_graph.node \subseteq DOMAIN site_graph'.node
    /\ site_graph.edges \subseteq site_graph'.edges
    /\ \A n \in DOMAIN site_graph.node : site_graph'.node[n] = site_graph.node[n]
    /\ Cardinality(DOMAIN site_graph'.node) <= Cardinality(DOMAIN site_graph.node) + 1
    /\ Cardinality(site_graph'.edges) <= Cardinality(site_graph.edges) + 1
    /\ \A id \in fetched_ok' \ fetched_ok :
          /\ id \notin DOMAIN site_graph.node
          /\ id \in DOMAIN site_graph'.node
          /\ \A e \in site_graph.edges : e[1] # id /\ e[2] # id

C18_WriteOnceGraph == [][WriteOnce]_vars

\* four edges were written one after another while the crawl goes on
C18_Witness ==
    /\ mainpc = "join"
    /\ Cardinality(site_graph.edges) = 4
    /\ Cardinality(DOMAIN site_graph.node) = 5
    /\ site_graph.node[0] = [url |-> start_url]
    /\ unfinished_tasks > 0

(***************************************************************************)
(* C19: FIFO.  The queue holds the accepted jobs not yet taken in the      *)
(* order of acceptance, and a worker takes the oldest of them: the jobs    *)
(* are taken in increasing id.  With a single worker the fetches start in  *)
(* strictly increasing id and in non-decreasing depth.                     *)
(***************************************************************************)
QueueInOrder ==
    queue = SubSeq(accepted, Len(accepted) - Len(queue) + 1, Len(accepted))

FifoStep ==
    /\ \A w \in Workers :
          (job[w] = <<>> /\ job'[w] # <<>>) =>
              job'[w] = accepted[Len(accepted) - Len(queue) + 1]
    /\ concurrency = 1 =>
          \A e \in BagToSet(fetch_log') \ BagToSet(fetch_log) :
             \A f \in BagToSet(fetch_log) :
                /\ f[1] < e[1]
                /\ accepted[f[1]][4] <= accepted[e[1]][4]

C19_Fifo == []QueueInOrder /\ [][FifoStep]_vars

\* a single worker has started four fetches, the last one of a job of depth 2,
\* while a job waits in the queue
C19_Witness ==
    /\ concurrency = 1
    /\ BagCardinality(fetch_log) = 4
    /\ pc[1] = "fetch"
    /\ accepted[job[1][1]][4] = 2
    /\ Len(queue) >= 1

(***************************************************************************)
(* C20 as stated: _filter_links yields no URL for which a job was already  *)
(* submitted before the call, and yields no URL twice in one call.         *)
(***************************************************************************)
\* the step is a call of _filter_links by a worker
FilterLinksStep == fetched_ok' # fetched_ok /\ last_call' # last_call

YieldsOnlyUnscheduled ==
    FilterLinksStep =>
        \A u \in BagToSet(last_call'.result) :
           /\ \A i \in 1..Len(accepted) : accepted[i][2] # u
           /\ CopiesIn(u, last_call'.result) = 1

C20_YieldsOnlyUnscheduled == [][YieldsOnlyUnscheduled]_vars

(***************************************************************************)
(* C20 amended: _filter_links yields no URL that is in crawled_links (the  *)
(* normalised seed URL and the pages fetched so far); it may yield a URL   *)
(* whose job is pending, in flight or failed, and the same URL twice.      *)
(* _process_link submits a yielded URL only when it is not in added_tasks: *)
(* the URLs submitted in the step are the yielded ones that were not in    *)
(* added_tasks, each once, and all yielded URLs are in added_tasks after.  *)
(***************************************************************************)
\* the URLs of the items submitted in the step
NewlySubmitted ==
    {submitted'[i][1] : i \in (Len(submitted) + 1)..Len(submitted')}

YieldsUncrawled ==
    FilterLinksStep =>
        /\ \A u \in BagToSet(last_call'.result) :
              u \notin crawled_links' /\ u \in added_tasks'
        /\ NewlySubmitted = BagToSet(last_call'.result) \ added_tasks
        /\ Cardinality(NewlySubmitted) = Len(submitted') - Len(submitted)
        /\ added_tasks' = added_tasks \cup BagToSet(last_call'.result)

C20_YieldsUncrawled == [][YieldsUncrawled]_vars

\* the page /2 was filtered after /1 had been submitted from the seed page,
\* and /1 was yielded again
C20_Witness ==
    /\ last_call.fn = "_filter_links"
    /\ last_call.parent_link = G \o <<"/", "2">>
    /\ BagIn(G \o <<"/", "1">>, last_call.result)
    /\ \E i \in 1..Len(accepted) : accepted[i][2] = G \o <<"/", "1">> /\ accepted[i][3] = 1

(***************************************************************************)
(* The host check on its own: a Crawler is constructed on a start URL      *)
(* whose host has two or three labels, and _has_root_url is called once.   *)
(***************************************************************************)

\* the start URLs: "https://google.com", "https://mail.google.com", and both
\* with a trailing slash
HostStartUrls == {GoogleUrl, GoogleSlash, MailGoogle, MailGoogleSlash}

\* cr = crawler.Crawler(url, "", allow_subdomains=..., allow_queries=...)
Constructed(url) ==
    /\ start_url = Strip(url, "/")
    /\ root_url = urlsplit(url).netloc
    /\ allow_subdomains \in BOOLEAN
    /\ allow_queries \in BOOLEAN
    /\ depth_by_desc = <<>>
    /\ concurrency = 1
    /\ site_graph = [node |-> (0 :> [url |-> Strip(url, "/")]), edges |-> {},
                     frozen |-> FALSE]
    /\ crawled_links = {_normalize_link(url, <<>>)}
    /\ added_tasks = {}
    /\ error_count = [k \in ErrorKinds |-> 0]
    /\ queue = EmptyQueue.queue
    /\ all_items = EmptyQueue.all_items
    /\ items_added = EmptyQueue.items_added
    /\ unfinished_tasks = EmptyQueue.unfinished_tasks
    /\ submitted = EmptyQueue.submitted
    /\ accepted = EmptyQueue.accepted
    /\ mainpc = "init"
    /\ pc = [w \in Workers |-> "new"]
    /\ job = [w \in Workers |-> <<>>]
    /\ fetch_log = EmptyBag
    /\ fetched_ok = {}
    /\ marked_done = EmptyBag
    /\ last_call = [fn |-> "none"]

HostInit == \E url \in HostStartUrls : Constructed(url)

HostNext == \E url \in TestLinks : CallHasRootUrl(url)

HostSpec == HostInit /\ [][HostNext]_vars

(***************************************************************************)
(* C21: whatever the number of labels of the start URL's host, an absolute *)
(* http link whose host is the root host passes _has_root_url under both   *)
(* subdomain policies, and with subdomains allowed _has_root_url is true   *)
(* exactly of the links whose host has the root host's last two labels.    *)
(***************************************************************************)
\* the last two labels of the host of url
RegistrableSuffix(url) == LastTwo(StrSplit(Host(url), "."))

\* url is an absolute http or https link
IsHttpLink(url) == Prefix(url, 4) = <<"h", "t", "t", "p">> /\ Host(url) # <<>>

C21_RootHostPasses ==
    (last_call.fn = "_has_root_url" /\ IsHttpLink(last_call.url)) =>
        /\ Host(last_call.url) = root_url => last_call.result
        /\ allow_subdomains =>
              (last_call.result <=>
                  RegistrableSuffix(last_call.url) = RegistrableSuffix(start_url))

(***************************************************************************)
(* C22: when join() can return (no unfinished task) the queue is empty and *)
(* every worker waits in queue.get() holding no job; a worker is cancelled *)
(* only while it waits there; and at the cancellation every request sent   *)
(* has ended, its job marked done, and every page fetched is in the graph. *)
(***************************************************************************)
\* worker w waits in queue.get() and holds no job
BlockedInGet(w) == pc[w] = "get" /\ job[w] = <<>>

QuiescentAtJoin ==
    /\ (mainpc = "join" /\ unfinished_tasks = 0) =>
          /\ queue = <<>>
          /\ \A w \in Workers : BlockedInGet(w)
    /\ mainpc = "gather" =>
          /\ queue = <<>>
          /\ \A w \in Workers : BlockedInGet(w) \/ pc[w] = "cancelled"
          /\ \A e \in BagToSet(fetch_log) : BagIn(e[1], marked_done)
          /\ fetched_ok = DOMAIN site_graph.node \ {0}

CancelInterruptsNoJob ==
    \A w \in Workers :
       (pc[w] # "cancelled" /\ pc'[w] = "cancelled") => BlockedInGet(w)

C22_QuiescentAtJoin == []QuiescentAtJoin /\ [][CancelInterruptsNoJob]_vars

\* join() has returned to two workers waiting in queue.get(), after three
\* pages were fetched and one fetch failed
C22_Witness ==
    /\ mainpc = "gather"
    /\ concurrency = 2
    /\ \A w \in Workers : BlockedInGet(w)
    /\ Cardinality(fetched_ok) = 3
    /\ \E k \in ErrorKinds : error_count[k] = 1

(***************************************************************************)
(* C23: accounting.  In every state the number of accepted jobs is the     *)
(* number of nodes other than the root, plus the sum of the error counts,  *)
(* plus the jobs in the queue, plus the jobs being processed; when a crawl *)
(* has ended the highest id is the nodes other than the root plus the      *)
(* errors; and the accepted jobs are the seed and one per added task.      *)
(***************************************************************************)
\* the nodes of the graph other than the root
NonRootNodes == DOMAIN site_graph.node \ {0}

C23_Accounting ==
    /\ Len(accepted) =
          Cardinality(NonRootNodes) + TotalErrors + Len(queue) + Cardinality(ProcessedIds)
    /\ mainpc \in {"returned", "frozen"} =>
          items_added = Cardinality(NonRootNodes) + TotalErrors
    /\ mainpc # "init" => Len(accepted) = Cardinality(added_tasks) + 1

(***************************************************************************)
(* C24: parent and depth.  The seed job has id 1, parent 0 and depth 0;    *)
(* every other job has the id of its place, and its parent is a job with a *)
(* smaller id that was fetched successfully, one level above it; every     *)
(* edge goes from a smaller id to a larger one, so the graph has no cycle, *)
(* and every node is reachable from node 0.                                *)
(***************************************************************************)
\* the nodes reached from the nodes of S along the edges of the graph
RECURSIVE ReachableFrom(_)
ReachableFrom(S) ==
    LET next == S \cup {e[2] : e \in {d \in site_graph.edges : d[1] \in S}}
    IN  IF next = S THEN S ELSE ReachableFrom(next)

C24_ParentAndDepth ==
    /\ Len(accepted) >= 1 => accepted[1] = <<1, start_url, 0, 0>>
    /\ \A i \in 2..Len(accepted) :
          /\ accepted[i][1] = i
          /\ accepted[i][3] \in fetched_ok
          /\ accepted[i][3] >= 1 /\ accepted[i][3] < i
          /\ accepted[i][4] = accepted[accepted[i][3]][4] + 1
    /\ \A e \in site_graph.edges :
          /\ e[1] < e[2]
          /\ e[1] = accepted[e[2]][3]
    /\ ReachableFrom({0}) = DOMAIN site_graph.node

\* two workers have fetched a page of depth 2, found on a page of depth 1
C24_Witness ==
    /\ concurrency = 2
    /\ \E e \in site_graph.edges :
          /\ e[1] >= 2
          /\ accepted[e[2]][4] = 2
          /\ accepted[e[1]][4] = 1
    /\ Cardinality(site_graph.edges) >= 4

====
